---------------------------- MODULE Spec2Model ----------------------------
(***************************************************************************)
(* Source verification pipeline of the tax research assistant:             *)
(*   utils/urlUtils.ts            normalizeUrl, isValidUrlFormat, ...      *)
(*   services/braveSearchService.ts  verifySourceUrl, searchWeb,           *)
(*                                 searchTaxResources                      *)
(*   services/openaiService.ts    TaxResearchChat.searchWithRetry          *)
(*                                                                         *)
(* A URL string is modelled by what `new URL(s)` makes of it: the scheme,  *)
(* the host, the path as its list of segments ("/x//" is <<"x","","">>,    *)
(* "/" is <<"">>), the query as the list of its parameter names and        *)
(* whether a fragment is present.  A string that `new URL` rejects keeps   *)
(* only its text.                                                          *)
(***************************************************************************)
EXTENDS Integers, Sequences, FiniteSets, TLC

VARIABLES
    \* ---- URL utilities exercised on their own (SpecUrl) ----
    u_pc,        \* "input" | "normalized" | "verified"
    u_url,       \* the URL string handed to the function
    u_once,      \* normalizeUrl(u_url)
    u_net,       \* the network's answers during verifySourceUrl
    u_out,       \* what verifySourceUrl returned
    \* ---- searchWeb exercised on its own (SpecWeb) ----
    w_pc,        \* "call" | "returned"
    w_key,       \* BRAVE_SEARCH_API_KEY is set
    w_resp,      \* the search backend's answer
    w_out,       \* what searchWeb did: threw, or the list returned
    \* ---- one request through the pipeline (Spec) ----
    pc,              \* where the request is
    mode,            \* the function called: searchWithRetry or searchTaxResources
    hasKey,          \* BRAVE_SEARCH_API_KEY is set
    message,         \* the user's message, as its words
    count,           \* searchTaxResources' count, doubled
    searchQueries,   \* planned queries not yet searched
    searchResults,   \* results of the current query not yet looked at
    verifiedSources, \* searchTaxResources' accepted sources
    seenUrls,        \* searchTaxResources' dedup set
    sources,         \* searchWithRetry's list; at "done" the value returned
    broaderTerms,    \* generic terms not yet tried
    surfaced,        \* an error reached the caller
    configErrors,    \* history: searches that threw for the missing key
    failedUrls,      \* history: candidates whose verification failed
    last,            \* history: how the latest candidate ended
    plannerFailed,   \* history: the planner call of this request failed
    tiers,           \* history: the searchWeb calls searchWithRetry made, by tier
    \* ---- the citation validator exercised on its own (SpecCite) ----
    c_pc,        \* "input" | "extracted" | "validated"
    c_text,      \* the answer text
    c_sources,   \* the available sources
    c_min,       \* minCitationsRequired
    c_cites,     \* what extractInlineCitations returned
    c_out,       \* what validateCitations returned
    \* ---- sendMessage calls on one TaxResearchChat (SpecChat) ----
    s_pc,         \* where the current call is; "idle" between calls
    s_calls,      \* calls started so far
    s_history,    \* conversationHistory
    s_sources,    \* searchSources
    s_request,    \* history: the messages of the generation request
    s_chunks,     \* history: the chunks the backend streams in this call
    s_stream,     \* the chunks not yet received
    s_fails,      \* the stream throws after its last chunk
    s_full,       \* fullResponse
    s_yielded,    \* what the generator has yielded in this call
    s_validation, \* the result of the final citation validation
    s_outcome,    \* history: "running", "completed" or "error"
    \* ---- the scorers exercised on their own (SpecScore) ----
    a_pc,         \* "input" | "scored"
    a_domains,    \* the hostnames of two sources
    a_replies,    \* the scoring model's answers: relevance, authority
    a_out         \* the scores computed

urlVars == <<u_pc, u_url, u_once, u_net, u_out>>
webVars == <<w_pc, w_key, w_resp, w_out>>
pipeVars == <<pc, mode, hasKey, message, count, searchQueries, searchResults,
              verifiedSources, seenUrls, sources, broaderTerms, surfaced,
              configErrors, failedUrls, last, plannerFailed, tiers>>
citeVars == <<c_pc, c_text, c_sources, c_min, c_cites, c_out>>
chatVars == <<s_pc, s_calls, s_history, s_sources, s_request, s_chunks,
              s_stream, s_fails, s_full, s_yielded, s_validation, s_outcome>>
scoreVars == <<a_pc, a_domains, a_replies, a_out>>
vars == <<urlVars, webVars, pipeVars, citeVars, chatVars, scoreVars>>

-----------------------------------------------------------------------------
(* Bounds of the model *)

MaxPathLen == 3
MaxParams == 2
\* results in one answer of the search backend
MaxResults == 2
\* lines in the planner model's reply
MaxLines == 4
\* the largest count (doubled) of a direct searchTaxResources call
MaxCount2 == 3
\* pieces (citations, broken citations, words) an answer text is made of
MaxPieces == 2
\* available sources handed to the citation validator
MaxSources == 3
\* the largest minCitationsRequired
MaxMin == 2
\* chunks in one streamed answer
MaxChunks == 2
\* sendMessage calls on one chat
MaxCalls == 2

-----------------------------------------------------------------------------
(* URL strings *)

Url(scheme, host, path, query, frag) ==
    [ok |-> TRUE, text |-> "", scheme |-> scheme, host |-> host,
     path |-> path, query |-> query, frag |-> frag]

\* a string `new URL` throws on; EmptyString is '' (falsy in JS)
Unparsable(text) ==
    [ok |-> FALSE, text |-> text, scheme |-> "", host |-> "",
     path |-> <<>>, query |-> <<>>, frag |-> FALSE]

EmptyString == Unparsable("")

SeqsUpTo(S, lo, hi) == UNION {[1..n -> S] : n \in lo..hi}

Schemes == {"https", "ftp"}
Hosts == {"canada.ca"}
Segments == {"x", ""}
ParamNames == {"utm_source", "id"}

UrlStrings ==
    {Url(s, h, p, q, f) : s \in Schemes, h \in Hosts,
                          p \in SeqsUpTo(Segments, 1, MaxPathLen),
                          q \in SeqsUpTo(ParamNames, 0, MaxParams),
                          f \in BOOLEAN}
    \cup {Unparsable("not a url")}

-----------------------------------------------------------------------------
(* utils/urlUtils.ts *)

trackingParams ==
    {"utm_source", "utm_medium", "utm_campaign", "utm_term", "utm_content",
     "gclid", "fbclid", "msclkid", "_ga", "mc_cid", "mc_eid",
     "ref", "referrer", "source", "campaign"}

\* urlObj.searchParams.delete(param) for every tracking parameter
DeleteTracking(query) == SelectSeq(query, LAMBDA n : n \notin trackingParams)

\* pathname.endsWith('/') && pathname.length > 1  ->  pathname.slice(0, -1):
\* exactly one trailing slash is cut, i.e. the last (empty) segment goes
StripTrailingSlash(path) ==
    IF path[Len(path)] = "" /\ path # <<"">>
    THEN SubSeq(path, 1, Len(path) - 1)
    ELSE path

normalizeUrl(url) ==
    IF ~url.ok THEN url   \* catch: return the original
    ELSE [url EXCEPT !.query = DeleteTracking(@),
                     !.frag = FALSE,
                     !.path = StripTrailingSlash(@)]

\* [a format test without the protocol test]
ParsesAsUrl(url) == url.ok

\* lines 44-51
isValidUrlFormat(url) == url.ok /\ url.scheme \in {"http", "https"}

extractDomain(url) == IF url.ok THEN url.host ELSE "unknown"

\* lines 71-91: the pathname is "/" or one of the homepage names, bare or
\* with one of the extensions .html .htm .php .aspx
HomepageNames == {"index", "home", "default", "main"}
HomepageSegments ==
    HomepageNames
    \cup {"index.html", "index.htm", "index.php", "index.aspx",
          "home.html", "home.htm", "home.php", "home.aspx",
          "default.html", "default.htm", "default.php", "default.aspx",
          "main.html", "main.htm", "main.php", "main.aspx"}
isHomepage(url) ==
    /\ url.ok
    /\ \/ url.path = <<"">>
       \/ Len(url.path) = 1 /\ url.path[1] \in HomepageSegments

-----------------------------------------------------------------------------
(* The network, as verifySourceUrl sees it.  A fetch either rejects        *)
(* (connection error, abort on timeout) or resolves to a response with a   *)
(* status, the final URL after redirects (response.url, possibly '') and   *)
(* a content type.                                                         *)

FetchError == [kind |-> "error", status |-> 0, url |-> EmptyString, html |-> FALSE]
Response(status, url, html) ==
    [kind |-> "resp", status |-> status, url |-> url, html |-> html]

\* [a test that takes every response for a success]
AnyResponse(r) == r.kind = "resp"

\* response.ok
ResponseOk(r) == r.kind = "resp" /\ r.status >= 200 /\ r.status <= 299

\* where a redirect may land: a page needing normalization, a homepage
RedirectTargets ==
    {Url("https", "canada.ca", <<"y", "">>, <<"utm_source">>, TRUE),
     Url("https", "canada.ca", <<"">>, <<>>, FALSE)}

ResponseUrls == {EmptyString} \cup RedirectTargets

HeadResponses ==
    {FetchError}
    \cup {Response(200, u, h) : u \in ResponseUrls, h \in BOOLEAN}
    \cup {Response(s, EmptyString, FALSE) : s \in {403, 404, 405, 500}}
    \cup {Response(404, u, TRUE) : u \in RedirectTargets}

GetResponses ==
    {FetchError, Response(404, EmptyString, FALSE)}
    \cup {Response(s, u, TRUE) : s \in {200, 206}, u \in ResponseUrls}

\* the title fetch: rejected, not ok, ok without <title>, ok with <title>
TitleResponses == {"error", "notok", "notitle", "title"}

NoGet == FetchError
\* every combination of the three answers; verifySourceUrl reads the ones
\* of the requests it issues
Networks ==
    {[head |-> h, get |-> g, title |-> t] :
        h \in HeadResponses, g \in GetResponses, t \in TitleResponses}

-----------------------------------------------------------------------------
(* services/braveSearchService.ts: verifySourceUrl *)

VERIFIED == "verified"
FAILED == "failed"

Thrown(reqs) == [threw |-> TRUE, requests |-> reqs, value |-> <<>>]
Returned(reqs, v) == [threw |-> FALSE, requests |-> reqs, value |-> v]

\* the try block (lines 22-122): either a return value or a thrown error,
\* with the requests issued on the way
VerifyTry(url, net) ==
    IF ~isValidUrlFormat(url) THEN Thrown(<<>>)
    ELSE
    LET normalizedUrl == normalizeUrl(url)
        head == net.head
    IN  IF head.kind = "error" THEN Thrown(<<"HEAD">>)
        ELSE
        LET headUrl == IF head.url = EmptyString THEN normalizedUrl ELSE head.url
            tryGet == ~ResponseOk(head) /\ head.status \in {405, 403}
            getOk == tryGet /\ ResponseOk(net.get)
            finalUrl == IF getOk
                        THEN (IF net.get.url = EmptyString THEN normalizedUrl
                              ELSE net.get.url)
                        ELSE headUrl
            isValid == ResponseOk(head) \/ getOk
            reqs1 == IF tryGet THEN <<"HEAD", "GET">> ELSE <<"HEAD">>
        IN  IF ~isValid THEN Thrown(reqs1)
            ELSE
            LET html == head.html
                title == IF html /\ net.title = "title" THEN "Page title" ELSE ""
                reqs2 == IF html THEN Append(reqs1, "GET-title") ELSE reqs1
            IN  Returned(reqs2,
                    [isValid |-> TRUE,
                     finalUrl |-> normalizeUrl(finalUrl),
                     domain |-> extractDomain(finalUrl),
                     status |-> VERIFIED,
                     html |-> html,
                     title |-> title])

\* [a catch block that hands the URL back as it came]
VerifyCatchRaw(url) ==
    [isValid |-> FALSE,
     finalUrl |-> url,
     domain |-> extractDomain(url),
     status |-> FAILED,
     html |-> FALSE,
     title |-> ""]

\* the catch block (lines 124-138)
VerifyCatch(url) ==
    [isValid |-> FALSE,
     finalUrl |-> normalizeUrl(url),
     domain |-> extractDomain(url),
     status |-> FAILED,
     html |-> FALSE,
     title |-> ""]

verifySourceUrl(url, net) ==
    LET t == VerifyTry(url, net)
    IN  IF t.threw
        THEN [threw |-> FALSE, requests |-> t.requests, value |-> VerifyCatch(url)]
        ELSE t

-----------------------------------------------------------------------------
(* Sources.  A Source is {uri, title}; the title plays no part in          *)
(* filtering, dedup or ranking and is left out.  `prov` is history the     *)
(* code does not keep: which function emitted the source, whether its URL  *)
(* verification there succeeded (enhancedSource.isValidated in searchWeb)  *)
(* and, for a source of the aggregator (searchTaxResources), the candidate *)
(* it comes from, whether its content was specific, whether its scores     *)
(* were at or above the three floors, and its composite score.             *)

NoScore == 0 - 1

WebProv(isValidated) ==
    [via |-> "searchWeb", candidate |-> EmptyString, verified |-> isValidated,
     specific |-> FALSE, floors |-> FALSE, overall |-> NoScore]

AggregatorProv(url, isValid, isSpecific, claim, authority, overall) ==
    [via |-> "aggregator", candidate |-> url, verified |-> isValid,
     specific |-> isSpecific,
     floors |-> claim >= 20 /\ authority >= 10 /\ overall >= 40,
     overall |-> overall]

Uris(seq) == {seq[i].uri : i \in 1..Len(seq)}

-----------------------------------------------------------------------------
(* services/braveSearchService.ts: searchWeb *)

\* what the search backend may list: pages under three paths, one with a
\* trailing slash and one with a tracking parameter
PageA == Url("https", "canada.ca", <<"a">>, <<>>, FALSE)
PageASlash == Url("https", "canada.ca", <<"a", "">>, <<>>, FALSE)
PageBTracked == Url("https", "canada.ca", <<"b">>, <<"utm_source">>, FALSE)
\* the site's homepage: listed by the backend, and where a moved page
\* redirects
HomePage == Url("https", "canada.ca", <<"">>, <<>>, FALSE)

ListedUrls == {PageA, PageASlash, PageBTracked, HomePage}

\* a results entry is a {title, url, ...} object, or something else (null)
Result(url) == [bad |-> FALSE, url |-> url]
BadResult == [bad |-> TRUE, url |-> EmptyString]
RawResults == {Result(u) : u \in ListedUrls} \cup {BadResult}

\* the answers of the network to a page request made by the pipeline
PageNetworks ==
    {[head |-> FetchError, get |-> NoGet, title |-> "error"],
     [head |-> Response(403, EmptyString, FALSE),
      get |-> Response(404, EmptyString, FALSE), title |-> "error"],
     [head |-> Response(403, EmptyString, FALSE),
      get |-> Response(200, EmptyString, TRUE), title |-> "error"]}
    \cup {[head |-> Response(200, u, FALSE), get |-> NoGet, title |-> "error"] :
            u \in {EmptyString, HomePage}}

\* lines 259-280: one entry of data.web.results; a rejected promise when
\* mapBraveResultToEnhancedSource throws (in the try and again in the catch)
ProcessResult(result, net) ==
    IF result.bad THEN [fulfilled |-> FALSE, value |-> <<>>]
    ELSE LET validation == verifySourceUrl(result.url, net).value
         IN  [fulfilled |-> TRUE,
              value |-> [uri |-> validation.finalUrl,
                         prov |-> WebProv(validation.isValid)]]

RECURSIVE Fulfilled(_, _)
\* lines 282-285: Promise.allSettled, keeping the fulfilled values in order
Fulfilled(results, nets) ==
    IF results = <<>> THEN <<>>
    ELSE LET p == ProcessResult(Head(results), Head(nets))
             rest == Fulfilled(Tail(results), Tail(nets))
         IN  IF p.fulfilled THEN <<p.value>> \o rest ELSE rest

\* the search backend's answer to one request
BackendFailures == {"transport", "non2xx", "malformed"}
NoResults(kind) == [kind |-> kind, results |-> <<>>]

\* lines 236-286, the try block
SearchWebTry(resp, nets) ==
    IF resp.kind \in BackendFailures THEN [threw |-> TRUE, value |-> <<>>]
    ELSE IF resp.kind = "noweb" THEN [threw |-> FALSE, value |-> <<>>]
    ELSE [threw |-> FALSE, value |-> Fulfilled(resp.results, nets)]

\* [a searchWeb that lets the error of a failed request escape]
SearchWebNoCatch(query, n, key, resp, nets) ==
    IF ~key THEN [threw |-> TRUE, value |-> <<>>]
    ELSE SearchWebTry(resp, nets)

\* lines 231-292: throws without the API key (before the try), otherwise
\* every error of the try block ends in the catch, which returns []
searchWeb(query, n, key, resp, nets) ==
    IF ~key THEN [threw |-> TRUE, value |-> <<>>]
    ELSE LET t == SearchWebTry(resp, nets)
         IN  IF t.threw THEN [threw |-> FALSE, value |-> <<>>] ELSE t

-----------------------------------------------------------------------------
(* services/braveSearchService.ts: the stages of searchTaxResources *)

\* extractAndAnalyzeContent (lines 359-422).  wordCount / 50 is not an
\* integer: contentQuality is kept in fiftieths (quality50 = 50 * quality).
Page(wordCount, placeholder) ==
    [kind |-> "page", wordCount |-> wordCount, placeholder |-> placeholder]
PageFetchFailed == [kind |-> "failed", wordCount |-> 0, placeholder |-> FALSE]

Min(a, b) == IF a <= b THEN a ELSE b
Max(a, b) == IF a >= b THEN a ELSE b

extractAndAnalyzeContent(page) ==
    IF page.kind # "page"
    THEN [wordCount |-> 0, isSpecific |-> FALSE, quality50 |-> 0]
    ELSE LET isSpecific == ~page.placeholder /\ page.wordCount > 50
         IN  [wordCount |-> page.wordCount,
              isSpecific |-> isSpecific,
              quality50 |-> Min(5000, Max(0,
                  page.wordCount + (IF isSpecific THEN 1000 ELSE 0)))]

\* the reply of the scoring model: the request fails, or the text of the
\* completion as parseInt reads it
ModelFailed == [kind |-> "failed", nan |-> TRUE, n |-> 0]
ModelSaid(n) == [kind |-> "text", nan |-> FALSE, n |-> n]
ModelSaidWords == [kind |-> "text", nan |-> TRUE, n |-> 0]

\* [a score taken as the model wrote it]
NoClamp(score) == score

\* Math.max(0, Math.min(100, score))
Clamp(score) == Max(0, Min(100, score))

\* lines 431-463
verifyContentClaims(reply) ==
    IF reply.kind = "text"
    THEN (IF reply.nan THEN 50 ELSE Clamp(reply.n))
    ELSE 50

\* domain.includes(marker), for the hostnames of the model and the markers
\* the two domain tables test ("www.cpacanada.ca" contains "canada.ca")
SubstringsOf(host) ==
    CASE host = "canada.ca" -> {"canada.ca"}
      [] host = "www.cra-arc.gc.ca" -> {"cra-arc.gc.ca", "gc.ca"}
      [] host = "www.ontario.ca" -> {"ontario.ca"}
      [] host = "www.canlii.org" -> {"canlii.org"}
      [] host = "www.cpacanada.ca" -> {"cpacanada.ca", "canada.ca"}
      [] host = "www.cba.org" -> {"cba.org"}
      [] host = "utoronto.edu" -> {".edu"}
      [] host = "kpmg.com" -> {"kpmg."}
      [] host = "www.taxtips.ca" -> {"taxtips", "taxtips."}
      [] host = "en.wikipedia.org" -> {"wikipedia.org"}
      [] OTHER -> {}
Includes(host, marker) == marker \in SubstringsOf(host)

\* lines 503-511: the first test that matches decides
AuthorityFallback(host) ==
    IF Includes(host, "canada.ca") \/ Includes(host, "cra-arc.gc.ca") THEN 80
    ELSE IF Includes(host, ".gov.") \/ Includes(host, "canlii.org") THEN 75
    ELSE IF Includes(host, "cpacanada.ca") THEN 70
    ELSE IF \/ Includes(host, "kpmg.") \/ Includes(host, "pwc.")
            \/ Includes(host, "deloitte.") \/ Includes(host, "ey.") THEN 65
    ELSE IF Includes(host, ".edu") THEN 60
    ELSE IF Includes(host, "taxplanningguide.") \/ Includes(host, "taxtips.") THEN 55
    ELSE 50

\* utils/urlUtils.ts, lines 113-158
getDomainReliabilityScore(host) ==
    IF \/ Includes(host, "canada.ca") \/ Includes(host, "gc.ca")
       \/ Includes(host, "cra-arc.gc.ca") THEN 80
    ELSE IF \/ Includes(host, ".gov.") \/ Includes(host, "ontario.ca")
            \/ Includes(host, "gov.bc.ca") THEN 80
    ELSE IF Includes(host, "canlii.org") \/ Includes(host, "courts.ca") THEN 75
    ELSE IF Includes(host, "cpacanada.ca") \/ Includes(host, "cba.org") THEN 75
    ELSE IF \/ Includes(host, "kpmg.") \/ Includes(host, "pwc.")
            \/ Includes(host, "deloitte.") \/ Includes(host, "ey.") THEN 70
    ELSE IF Includes(host, ".edu") \/ Includes(host, ".ac.") THEN 60
    ELSE IF \/ Includes(host, "taxnet") \/ Includes(host, "taxtips")
            \/ Includes(host, "taxplanningguide") THEN 60
    ELSE IF Includes(host, "wikipedia.org") THEN 45
    ELSE 50

\* lines 472-512
verifySourceAuthority(url, reply) ==
    IF reply.kind = "text"
    THEN (IF reply.nan THEN 50 ELSE Clamp(reply.n))
    ELSE AuthorityFallback(url.host)

\* lines 597-599: Math.round(claim * 0.4 + authority * 0.2 + quality * 0.4),
\* in exact arithmetic: round(x) = floor(x + 1/2), everything over 250
OverallScore(claim, authority, quality50) ==
    (100 * claim + 50 * authority + 2 * quality50 + 125) \div 250

\* [thresholds that forget the relevance floor]
PassesWithoutRelevance(claim, authority, overall) ==
    authority >= 10 /\ overall >= 40

\* line 602
PassesThresholds(claim, authority, overall) ==
    claim >= 20 /\ authority >= 10 /\ overall >= 40

RECURSIVE Digits(_)
\* `[Verified: ${overallScore}%]` (line 604): the decimal digits
Digits(n) == IF n < 10 THEN <<n>> ELSE Append(Digits(n \div 10), n % 10)

RECURSIVE DigitsValue(_)
DigitsValue(ds) ==
    IF ds = <<>> THEN 0
    ELSE 10 * DigitsValue(SubSeq(ds, 1, Len(ds) - 1)) + ds[Len(ds)]

\* the description of a source: '' or `[Verified: N%]` with N's digits
NoDescription == <<>>
VerifiedDescription(overall) == Digits(overall)

\* lines 620-621: parseInt(description.match(/Verified: (\d+)%/)?.[1] || '0')
SortKey(source) ==
    IF source.description = NoDescription THEN 0
    ELSE DigitsValue(source.description)

\* [a comparator that puts the lowest score first]
ComesBeforeAscending(a, b) == SortKey(a) <= SortKey(b)

\* line 622: bScore - aScore <= 0 keeps a before b (the sort is stable)
ComesBefore(a, b) == SortKey(b) - SortKey(a) <= 0

RECURSIVE InsertSorted(_, _)
InsertSorted(sorted, x) ==
    IF sorted = <<>> THEN <<x>>
    ELSE IF ComesBefore(Head(sorted), x)
         THEN <<Head(sorted)>> \o InsertSorted(Tail(sorted), x)
         ELSE <<x>> \o sorted

RECURSIVE SortByScore(_)
\* lines 618-623: a stable sort, highest score first
SortByScore(seq) ==
    IF seq = <<>> THEN <<>>
    ELSE InsertSorted(SortByScore(SubSeq(seq, 1, Len(seq) - 1)), seq[Len(seq)])

\* `count` is a JS number; the model keeps twice its value so that requests
\* such as 2.5 are covered.  Math.ceil(count / 2), the size asked of searchWeb:
HalfCeil(count2) == (count2 + 3) \div 4

\* [no truncation of the ranked list]
NoSlice(seq, count2) == seq

\* line 624: slice(0, count) (the end index is truncated to an integer)
Slice(seq, count2) == SubSeq(seq, 1, Min(Len(seq), count2 \div 2))

\* line 554: verifiedSources.length >= count
AtLimit(len, count2) == 2 * len >= count2

\* line 218-223
mapEnhancedSourceToSource(e) == [uri |-> e.uri, prov |-> e.prov]

-----------------------------------------------------------------------------
(* services/braveSearchService.ts: generateTargetedSearchQueries *)

\* a search query: where it comes from and its text
Query(src, text) == [src |-> src, text |-> text]

\* the lines the planner model may write, with what
\* q.replace(/^\d+\.?\s*/, '').trim() leaves of each
PlanLines == {"", "1. capital gains guide"}
StripEnumeration(line) ==
    IF line = "1. capital gains guide" THEN "capital gains guide" ELSE line

\* the ways the planner call fails: fetch rejects, response.ok is false
\* (line 332), or the body has no choices[0].message.content to split
PlannerFailures == {"rejected", "status", "shape"}
PlannerFailed(how) == [kind |-> how, lines |-> <<>>]
PlannerSaid(lines) == [kind |-> "text", lines |-> lines]
PlannerReplies ==
    {PlannerFailed(how) : how \in PlannerFailures}
        \cup {PlannerSaid(l) : l \in SeqsUpTo(PlanLines, 0, MaxLines)}

\* lines 345-350
FallbackQueries ==
    <<Query("fallback", "\"${query}\" specific guide document"),
      Query("fallback", "${query} detailed explanation instructions"),
      Query("fallback", "${query} form requirements process"),
      Query("fallback", "${query} specific rules regulations")>>

\* [a planner without the fallback of lines 344-350]
PlanWithoutFallback(reply) == <<>>

\* lines 309-351
generateTargetedSearchQueries(reply) ==
    IF reply.kind = "text"
    THEN LET nonBlank == SelectSeq(reply.lines, LAMBDA l : l # "")
             queries == [i \in 1..Len(nonBlank) |->
                            Query("ai", StripEnumeration(nonBlank[i]))]
         IN  SubSeq(queries, 1, Min(3, Len(queries)))
    ELSE FallbackQueries

-----------------------------------------------------------------------------
(* services/openaiService.ts: the helpers of searchWithRetry *)

stopWords ==
    {"what", "how", "when", "where", "why", "who", "is", "are", "can", "do",
     "does", "the", "a", "an"}

\* the words of the model's messages, lowercased, and their lengths
ToLower(word) == IF word = "Tax" THEN "tax" ELSE word
WordLength(word) ==
    CASE word \in {"a"} -> 1
      [] word \in {"is"} -> 2
      [] word \in {"tax", "Tax"} -> 3
      [] OTHER -> 6

Messages ==
    {<<"tax", "credit">>, <<"what", "is", "Tax", "credit">>, <<"is", "a">>}

\* lines 156-163; the joined words stand for the string
simplifyQuery(query) ==
    LET lower == [i \in 1..Len(query) |-> ToLower(query[i])]
        words == SelectSeq(lower,
                    LAMBDA w : w \notin stopWords /\ WordLength(w) > 2)
    IN  SubSeq(words, 1, Min(3, Len(words)))

\* lines 170-193: always three terms
generateBroaderSearchTerms(query) ==
    LET lower == {ToLower(query[i]) : i \in 1..Len(query)}
        taxTerms == IF lower \cap {"tax", "income", "deduction"} # {}
                    THEN <<"Canada tax information", "Canadian tax rules",
                           "income tax Canada">>
                    ELSE <<>>
        businessTerms ==
            IF lower \cap {"business", "corporation", "company"} # {}
            THEN <<"business tax Canada", "corporate tax rules",
                   "business deductions">>
            ELSE <<>>
        all == taxTerms \o businessTerms \o
               <<"Canadian tax guide", "tax information Canada",
                 "CRA tax rules", "tax planning Canada">>
    IN  SubSeq(all, 1, 3)

\* line 79: sources.length < 3
NeedsDirect(held) == Len(held) < 3

\* the simplified tier gated like the direct one (comparison for C25)
SimplifiedBelowThree(held) == Len(held) < 3

\* line 98: sources.length < 2
NeedsSimplified(held) == Len(held) < 2

\* line 118: sources.length === 0
NeedsBroader(held) == Len(held) = 0

RECURSIVE AddUnique(_, _)
\* lines 85-93 and 107-113: push the sources whose uri is not yet held
AddUnique(held, more) ==
    IF more = <<>> THEN held
    ELSE IF Head(more).uri \in Uris(held)
         THEN AddUnique(held, Tail(more))
         ELSE AddUnique(Append(held, Head(more)), Tail(more))

-----------------------------------------------------------------------------
(* What the outside world may answer *)

BackendResponses ==
    {NoResults(k) : k \in BackendFailures \cup {"noweb"}}
    \cup {[kind |-> "results", results |-> rs] :
            rs \in SeqsUpTo(RawResults, 0, MaxResults)}

\* every way one searchWeb call can end: the query and the size asked for
\* do not bind the backend, so the outcomes are tabulated per key
SearchWebTable ==
    [key \in BOOLEAN |->
        UNION {{searchWeb(Query("", ""), 0, key, resp, nets) :
                   nets \in [1..Len(resp.results) -> PageNetworks]} :
               resp \in BackendResponses}]

SearchWebOutcomes(query, n, key) == SearchWebTable[key]

\* lines 539-552: of a search result the aggregator reads the uri alone
ResultUris(results) == [i \in 1..Len(results) |-> results[i].uri]

SearchResultsTable ==
    [key \in BOOLEAN |->
        {[threw |-> out.threw, value |-> ResultUris(out.value)] :
            out \in SearchWebTable[key]}]

\* the fetched page: no page, too short, a placeholder, a short page and a
\* long one (quality 21.2 and 100)
Pages ==
    {PageFetchFailed, Page(40, FALSE), Page(60, TRUE), Page(60, FALSE),
     Page(4000, FALSE)}

\* the replies of the scoring model: relevance 50 (the fallback) or 10,
\* authority from the fallback table, 5 or 10
ClaimReplies == {ModelFailed, ModelSaid(10)}
AuthorityReplies == {ModelFailed, ModelSaid(5), ModelSaid(10)}

-----------------------------------------------------------------------------
(* services/braveSearchService.ts: searchTaxResources *)

\* why a candidate with passing content was kept or dropped at line 602:
\* "relevance" when the relevance floor alone decided
Verdict(claim, authority, overall, passes) ==
    IF passes THEN "accepted"
    ELSE IF claim < 20 /\ authority >= 10 /\ overall >= 40 THEN "relevance"
    ELSE "thresholds"

\* [a candidate evaluation that goes on after a failed verification]
EvaluateUnverified(url, net, page, claimReply, authorityReply) ==
    LET urlVerification == verifySourceUrl(url, net).value
        contentAnalysis == extractAndAnalyzeContent(page)
        claimScore == verifyContentClaims(claimReply)
        authorityScore ==
            verifySourceAuthority(urlVerification.finalUrl, authorityReply)
        overallScore ==
            OverallScore(claimScore, authorityScore, contentAnalysis.quality50)
        passes == PassesThresholds(claimScore, authorityScore, overallScore)
    IN  IF ~contentAnalysis.isSpecific \/ contentAnalysis.quality50 < 1000
        THEN [why |-> IF urlVerification.isValid THEN "content"
                      ELSE "verification",
              source |-> <<>>]
        ELSE IF ~passes
        THEN [why |-> IF urlVerification.isValid
                      THEN Verdict(claimScore, authorityScore, overallScore, FALSE)
                      ELSE "verification",
              source |-> <<>>]
        ELSE [why |-> IF urlVerification.isValid THEN "accepted"
                      ELSE "verification",
              source |-> [uri |-> urlVerification.finalUrl,
                          description |-> VerifiedDescription(overallScore),
                          prov |-> AggregatorProv(url, urlVerification.isValid,
                                      contentAnalysis.isSpecific, claimScore,
                                      authorityScore, overallScore)]]

\* lines 563-610: the verification layers of one candidate; `source` is the
\* source pushed, if any
Evaluate(url, net, page, claimReply, authorityReply) ==
    LET urlVerification == verifySourceUrl(url, net).value
        contentAnalysis == extractAndAnalyzeContent(page)
        claimScore == verifyContentClaims(claimReply)
        authorityScore ==
            verifySourceAuthority(urlVerification.finalUrl, authorityReply)
        overallScore ==
            OverallScore(claimScore, authorityScore, contentAnalysis.quality50)
        passes == PassesThresholds(claimScore, authorityScore, overallScore)
    IN  IF ~urlVerification.isValid
        THEN [why |-> "verification", source |-> <<>>]
        ELSE IF ~contentAnalysis.isSpecific \/ contentAnalysis.quality50 < 1000
        THEN [why |-> "content", source |-> <<>>]
        ELSE IF ~passes
        THEN [why |-> Verdict(claimScore, authorityScore, overallScore, FALSE),
              source |-> <<>>]
        ELSE [why |-> "accepted",
              source |-> [uri |-> urlVerification.finalUrl,
                          description |-> VerifiedDescription(overallScore),
                          prov |-> AggregatorProv(url, TRUE,
                                      contentAnalysis.isSpecific, claimScore,
                                      authorityScore, overallScore)]]

\* the uris searchWeb can hand over, and every way the evaluation of a
\* candidate can end
CandidateUrls ==
    {normalizeUrl(u) : u \in ListedUrls}
    \cup {normalizeUrl(n.head.url) : n \in {m \in PageNetworks :
                                        m.head.url # EmptyString}}

CandidateTable ==
    [url \in CandidateUrls |->
        {Evaluate(url, net, page, c, a) :
            net \in PageNetworks, page \in Pages,
            c \in ClaimReplies, a \in AuthorityReplies}]

CandidateOutcomes(url) == CandidateTable[url]

\* [a loop that drops the other results of the query when a candidate fails]
NextResultsUnlessFailed(results, why) ==
    IF why \in {"verification", "content"} THEN <<>> ELSE Tail(results)

\* lines 536-611: every `continue` (555, 563, 576) and the end of the loop
\* body go on with the next result of the query
NextResults(results, why) == Tail(results)

\* line 524
STR_Plan ==
    /\ pc = "str_plan"
    /\ \E reply \in PlannerReplies :
          /\ searchQueries' = generateTargetedSearchQueries(reply)
          /\ plannerFailed' = (reply.kind # "text")
    /\ pc' = "str_planned"
    /\ UNCHANGED <<mode, hasKey, message, count, searchResults, verifiedSources,
                   seenUrls, sources, broaderTerms, surfaced, configErrors,
                   failedUrls, last, tiers>>
    /\ UNCHANGED <<urlVars, webVars, citeVars, chatVars, scoreVars>>

\* lines 525-528: the empty accumulator and dedup set
STR_Start ==
    /\ pc = "str_planned"
    /\ verifiedSources' = <<>>
    /\ seenUrls' = {}
    /\ searchResults' = <<>>
    /\ pc' = "str_loop"
    /\ UNCHANGED <<mode, hasKey, message, count, searchQueries, sources,
                   broaderTerms, surfaced, configErrors, failedUrls, last,
                   plannerFailed, tiers>>
    /\ UNCHANGED <<urlVars, webVars, citeVars, chatVars, scoreVars>>

\* lines 531-534 and 612-614: the search of the next planned query; a throw
\* of searchWeb is caught and the loop goes on with the next query.  Of a
\* search result the loop reads the uri alone (lines 539-552)
STR_Search ==
    /\ pc = "str_loop"
    /\ searchResults = <<>>
    /\ searchQueries # <<>>
    /\ \E out \in SearchResultsTable[hasKey] :
          /\ searchResults' = out.value
          /\ configErrors' = IF out.threw THEN configErrors + 1 ELSE configErrors
    /\ searchQueries' = Tail(searchQueries)
    /\ UNCHANGED <<pc, mode, hasKey, message, count, verifiedSources, seenUrls,
                   sources, broaderTerms, surfaced, failedUrls, last, plannerFailed, tiers>>
    /\ UNCHANGED <<urlVars, webVars, citeVars, chatVars, scoreVars>>

\* lines 536-611: one search result
STR_Candidate ==
    /\ pc = "str_loop"
    /\ searchResults # <<>>
    /\ LET url == Head(searchResults)
       IN  IF url \in seenUrls \/ AtLimit(Len(verifiedSources), count)
           THEN /\ last' = "skipped"
                /\ UNCHANGED <<seenUrls, verifiedSources, failedUrls>>
           ELSE /\ seenUrls' = seenUrls \cup {url}
                /\ \E e \in CandidateOutcomes(url) :
                      /\ verifiedSources' =
                            IF e.source # <<>>
                            THEN Append(verifiedSources, e.source)
                            ELSE verifiedSources
                      /\ failedUrls' =
                            IF e.why = "verification" THEN failedUrls \cup {url}
                            ELSE failedUrls
                      /\ last' = e.why
    /\ searchResults' = NextResults(searchResults, last')
    /\ UNCHANGED <<pc, mode, hasKey, message, count, searchQueries, sources,
                   broaderTerms, surfaced, configErrors, plannerFailed, tiers>>
    /\ UNCHANGED <<urlVars, webVars, citeVars, chatVars, scoreVars>>

\* lines 617-625
STR_Return ==
    /\ pc = "str_loop"
    /\ searchResults = <<>>
    /\ searchQueries = <<>>
    /\ LET ranked == Slice(SortByScore(verifiedSources), count)
       IN  sources' = [i \in 1..Len(ranked) |->
                          mapEnhancedSourceToSource(ranked[i])]
    /\ pc' = IF mode = "searchWithRetry" THEN "swr_direct" ELSE "done"
    /\ UNCHANGED <<mode, hasKey, message, count, searchQueries, searchResults,
                   verifiedSources, seenUrls, broaderTerms, surfaced,
                   configErrors, failedUrls, last, plannerFailed, tiers>>
    /\ UNCHANGED <<urlVars, webVars, citeVars, chatVars, scoreVars>>

-----------------------------------------------------------------------------
(* services/openaiService.ts: TaxResearchChat.searchWithRetry *)

\* lines 78-96: the direct web search
SWR_Direct ==
    /\ pc = "swr_direct"
    /\ IF NeedsDirect(sources)
       THEN \E out \in SearchWebOutcomes(Query("message", ""), 4, hasKey) :
               /\ tiers' = Append(tiers, "direct")
               /\ IF out.threw
                  THEN /\ pc' = "swr_catch"
                       /\ configErrors' = configErrors + 1
                       /\ UNCHANGED sources
                  ELSE /\ pc' = "swr_simplified"
                       /\ sources' = AddUnique(sources, out.value)
                       /\ UNCHANGED configErrors
       ELSE /\ pc' = "swr_simplified"
            /\ UNCHANGED <<sources, configErrors, tiers>>
    /\ UNCHANGED <<mode, hasKey, message, count, searchQueries, searchResults,
                   verifiedSources, seenUrls, broaderTerms, surfaced, failedUrls, last, plannerFailed>>
    /\ UNCHANGED <<urlVars, webVars, citeVars, chatVars, scoreVars>>

\* lines 98-115: the simplified query
SWR_Simplified ==
    /\ pc = "swr_simplified"
    /\ LET simplifiedQuery == simplifyQuery(message)
       IN  IF NeedsSimplified(sources) /\ simplifiedQuery # message
                                       /\ Len(simplifiedQuery) > 0
           THEN \E out \in SearchWebOutcomes(Query("simplified", ""), 4, hasKey) :
                   /\ tiers' = Append(tiers, "simplified")
                   /\ IF out.threw
                      THEN /\ pc' = "swr_catch"
                           /\ configErrors' = configErrors + 1
                           /\ UNCHANGED sources
                      ELSE /\ pc' = "swr_broader"
                           /\ sources' = AddUnique(sources, out.value)
                           /\ UNCHANGED configErrors
           ELSE /\ pc' = "swr_broader"
                /\ UNCHANGED <<sources, configErrors, tiers>>
    /\ broaderTerms' = generateBroaderSearchTerms(message)
    /\ UNCHANGED <<mode, hasKey, message, count, searchQueries, searchResults,
                   verifiedSources, seenUrls, surfaced, failedUrls, last, plannerFailed>>
    /\ UNCHANGED <<urlVars, webVars, citeVars, chatVars, scoreVars>>

\* lines 117-130: one generic term; the first one with any result ends the loop
SWR_Broader ==
    /\ pc = "swr_broader"
    /\ NeedsBroader(sources)
    /\ broaderTerms # <<>>
    /\ tiers' = Append(tiers, "broader")
    /\ \E out \in SearchWebOutcomes(Query("broader", Head(broaderTerms)), 4, hasKey) :
          IF out.threw
          THEN /\ pc' = "swr_catch"
               /\ configErrors' = configErrors + 1
               /\ UNCHANGED <<sources, broaderTerms>>
          ELSE /\ sources' = out.value
               /\ broaderTerms' = IF Len(out.value) > 0 THEN <<>>
                                  ELSE Tail(broaderTerms)
               /\ UNCHANGED <<pc, configErrors>>
    /\ UNCHANGED <<mode, hasKey, message, count, searchQueries, searchResults,
                   verifiedSources, seenUrls, surfaced, failedUrls, last, plannerFailed>>
    /\ UNCHANGED <<urlVars, webVars, citeVars, chatVars, scoreVars>>

\* lines 132-133
SWR_Return ==
    /\ pc = "swr_broader"
    /\ ~NeedsBroader(sources) \/ broaderTerms = <<>>
    /\ pc' = "done"
    /\ broaderTerms' = <<>>
    /\ UNCHANGED <<mode, hasKey, message, count, searchQueries, searchResults,
                   verifiedSources, seenUrls, sources, surfaced, configErrors,
                   failedUrls, last, plannerFailed, tiers>>
    /\ UNCHANGED <<urlVars, webVars, citeVars, chatVars, scoreVars>>

\* lines 135-148: the catch block: one last basic search, [] if that throws
SWR_Catch ==
    /\ pc = "swr_catch"
    /\ \E out \in SearchWebOutcomes(Query("first three words", ""), 3, hasKey) :
          /\ sources' = out.value
          /\ configErrors' = IF out.threw THEN configErrors + 1 ELSE configErrors
    /\ tiers' = Append(tiers, "basic")
    /\ pc' = "done"
    /\ broaderTerms' = <<>>
    /\ UNCHANGED <<mode, hasKey, message, count, searchQueries, searchResults,
                   verifiedSources, seenUrls, surfaced, failedUrls, last, plannerFailed>>
    /\ UNCHANGED <<urlVars, webVars, citeVars, chatVars, scoreVars>>

-----------------------------------------------------------------------------
(* utils/urlUtils.ts: the citation validator.  A text is a sequence of     *)
(* tokens: the four delimiters and the space are one character each, the   *)
(* paragraph break is "\n\n", and a word, a title or a URL is one token of *)
(* several characters, none of them a delimiter or a space.                *)

Blank == {" ", "\n\n"}

\* the URL strings of the texts and source lists, and what `new URL` and
\* the URL's components make of each
CitedUrls ==
    {"https://canada.ca/path", "https://www.canada.ca/path/",
     "https://canada.ca/Path#top", "https://canada.ca/path//",
     "https://canada.ca/path?b=1&a=2", "https://canada.ca/path?a=2&b=1"}

ParseUrl(s) ==
    CASE s = "https://canada.ca/path" ->
            Url("https", "canada.ca", <<"path">>, <<>>, FALSE)
      [] s = "https://www.canada.ca/path/" ->
            Url("https", "www.canada.ca", <<"path", "">>, <<>>, FALSE)
      [] s = "https://canada.ca/Path#top" ->
            Url("https", "canada.ca", <<"Path">>, <<>>, TRUE)
      [] s = "https://canada.ca/path//" ->
            Url("https", "canada.ca", <<"path", "", "">>, <<>>, FALSE)
      [] s = "https://canada.ca/path?b=1&a=2" ->
            Url("https", "canada.ca", <<"path">>, <<"b", "a">>, FALSE)
      [] s = "https://canada.ca/path?a=2&b=1" ->
            Url("https", "canada.ca", <<"path">>, <<"a", "b">>, FALSE)
      [] OTHER -> Unparsable(s)

\* String.length of a token
StringLength(s) ==
    CASE s \in {"[", "]", "(", ")", " "} -> 1
      [] s = "\n\n" -> 2
      [] s \in {"tax", "See"} -> 3
      [] s = "Guide" -> 5
      [] s = "https://canada.ca/path" -> 22
      [] s = "https://www.canada.ca/path/" -> 27
      [] s = "https://canada.ca/Path#top" -> 26
      [] s = "https://canada.ca/path//" -> 24
      [] s = "https://canada.ca/path?b=1&a=2" -> 30
      [] s = "https://canada.ca/path?a=2&b=1" -> 30
      [] OTHER -> 1

RECURSIVE TextLength(_)
TextLength(text) ==
    IF text = <<>> THEN 0 ELSE StringLength(Head(text)) + TextLength(Tail(text))

\* String.prototype.toLowerCase, token by token
toLowerCase(s) ==
    CASE s = "Path" -> "path"
      [] s = "See" -> "see"
      [] s = "Guide" -> "guide"
      [] s = "https://canada.ca/Path#top" -> "https://canada.ca/path#top"
      [] OTHER -> s

\* String.prototype.trim
RECURSIVE TrimStart(_)
TrimStart(text) ==
    IF text # <<>> /\ Head(text) \in Blank THEN TrimStart(Tail(text)) ELSE text

RECURSIVE TrimEnd(_)
TrimEnd(text) ==
    IF text # <<>> /\ text[Len(text)] \in Blank
    THEN TrimEnd(SubSeq(text, 1, Len(text) - 1))
    ELSE text

\* [a trim that leaves the text as it is]
NoTrim(text) == text

Trim(text) == TrimEnd(TrimStart(text))

\* the first position from `from` on holding the token, 0 when there is none
IndexOf(text, token, from) ==
    LET found == {i \in from..Len(text) : text[i] = token}
    IN  IF found = {} THEN 0 ELSE CHOOSE i \in found : \A j \in found : i <= j

\* /\[([^\]]+)\]\(([^)]+)\)/ tried at position i: the closing bracket is the
\* first one after i, the closing parenthesis the first one after "]("
NoMatch == [found |-> FALSE, first |-> 0, mid |-> 0, last |-> 0]
MatchAt(text, i) ==
    IF text[i] # "[" THEN NoMatch
    ELSE LET j == IndexOf(text, "]", i + 1)
         IN  IF j = 0 \/ j = i + 1 \/ j = Len(text) THEN NoMatch
             ELSE IF text[j + 1] # "(" THEN NoMatch
             ELSE LET k == IndexOf(text, ")", j + 2)
                  IN  IF k = 0 \/ k = j + 2 THEN NoMatch
                      ELSE [found |-> TRUE, first |-> i, mid |-> j, last |-> k]

\* lines 190-196; `first` and `last` are the token positions of the span
CitationMatch(text, m) ==
    [text |-> SubSeq(text, m.first, m.last),
     title |-> Trim(SubSeq(text, m.first + 1, m.mid - 1)),
     url |-> Trim(SubSeq(text, m.mid + 2, m.last - 1)),
     startIndex |-> TextLength(SubSeq(text, 1, m.first - 1)),
     endIndex |-> TextLength(SubSeq(text, 1, m.first - 1))
                    + TextLength(SubSeq(text, m.first, m.last)),
     first |-> m.first, last |-> m.last]

RECURSIVE ExecFrom(_, _)
\* lines 188-197: citationRegex.exec from lastIndex on, until null
ExecFrom(text, lastIndex) ==
    LET starts == {i \in lastIndex..Len(text) : MatchAt(text, i).found}
    IN  IF starts = {} THEN <<>>
        ELSE LET i == CHOOSE s \in starts : \A t \in starts : s <= t
                 m == MatchAt(text, i)
             IN  <<CitationMatch(text, m)>> \o ExecFrom(text, m.last + 1)

\* lines 183-200
extractInlineCitations(responseText) == ExecFrom(responseText, 1)

\* the `new URL(url)` of a string held as tokens: a URL string is one token
ParseTokens(url) ==
    IF Len(url) = 1 THEN ParseUrl(url[1]) ELSE Unparsable("")

\* hostname.startsWith('www.') -> hostname.substring(4)
StripWww(host) == IF host = "www.canada.ca" THEN "canada.ca" ELSE host

\* Array.from(searchParams.entries()).sort(): the order of the names
ParamRank(name) == CASE name = "a" -> 1 [] name = "b" -> 2 [] OTHER -> 3

RECURSIVE InsertParam(_, _)
InsertParam(sorted, name) ==
    IF sorted = <<>> THEN <<name>>
    ELSE IF ParamRank(Head(sorted)) <= ParamRank(name)
         THEN <<Head(sorted)>> \o InsertParam(Tail(sorted), name)
         ELSE <<name>> \o sorted

RECURSIVE SortParams(_)
SortParams(query) ==
    IF query = <<>> THEN <<>>
    ELSE InsertParam(SortParams(SubSeq(query, 1, Len(query) - 1)),
                     query[Len(query)])

LowerAll(seq) == [i \in 1..Len(seq) |-> toLowerCase(seq[i])]

\* [a comparison form that keeps the www. prefix]
KeepWwwForComparison(url) ==
    LET urlObj == ParseTokens(url)
    IN  IF ~urlObj.ok
        THEN [ok |-> FALSE, url |-> EmptyString, text |-> LowerAll(url)]
        ELSE [ok |-> TRUE,
              url |-> [urlObj EXCEPT !.path = LowerAll(StripTrailingSlash(@)),
                                     !.query = LowerAll(SortParams(@)),
                                     !.frag = FALSE],
              text |-> <<>>]

\* lines 335-360: the string returned, as the URL it spells, or the
\* lowercased input when `new URL` throws
normalizeUrlForComparison(url) ==
    LET urlObj == ParseTokens(url)
    IN  IF ~urlObj.ok
        THEN [ok |-> FALSE, url |-> EmptyString, text |-> LowerAll(url)]
        ELSE [ok |-> TRUE,
              url |-> [urlObj EXCEPT !.path = LowerAll(StripTrailingSlash(@)),
                                     !.host = StripWww(@),
                                     !.query = LowerAll(SortParams(@)),
                                     !.frag = FALSE],
              text |-> <<>>]

\* lines 228 and 259: the factual-language heuristic, on the words of the model
FactualWords == {"tax"}
HasFactualContent(text) == \E i \in 1..Len(text) : text[i] \in FactualWords

RECURSIVE Split(_)
\* responseText.split('\n\n')
Split(text) ==
    LET i == IndexOf(text, "\n\n", 1)
    IN  IF i = 0 THEN <<text>>
        ELSE <<SubSeq(text, 1, i - 1)>> \o Split(SubSeq(text, i + 1, Len(text)))

\* line 257
Paragraphs(text) == SelectSeq(Split(text), LAMBDA p : Trim(p) # <<>>)

INSUFFICIENT == "Insufficient citations"
UNSUPPORTED == "Response contains factual claims but no citations provided"
UNAVAILABLE == "citations reference URLs not in provided sources"
UNCOVERED == "Factual paragraphs exist but no paragraphs contain citations"

\* [a test that lets one citation fewer than the minimum pass]
InsufficientByTwo(sourceCount, citationCount, minCitationsRequired) ==
    sourceCount > 1 /\ citationCount < minCitationsRequired - 1

\* line 223
Insufficient(sourceCount, citationCount, minCitationsRequired) ==
    sourceCount > 1 /\ citationCount < minCitationsRequired

\* lines 209-291; `issues` holds the issues pushed, `invalidCitations` the
\* local list of lines 237-240
validateCitations(responseText, availableSources, minCitationsRequired) ==
    LET extractedCitations == extractInlineCitations(responseText)
        citationCount == Len(extractedCitations)
        uniqueCitationUrls ==
            {extractedCitations[i].url : i \in 1..citationCount}
        availableUrls == Uris(availableSources)
        normalizedAvailableUrls ==
            {normalizeUrlForComparison(u) : u \in availableUrls}
        invalidCitations ==
            SelectSeq(extractedCitations,
                LAMBDA c : /\ c.url \notin availableUrls
                           /\ normalizeUrlForComparison(c.url)
                                 \notin normalizedAvailableUrls)
        paragraphs == Paragraphs(responseText)
        paragraphsWithFacts == SelectSeq(paragraphs, HasFactualContent)
        paragraphsWithCitations ==
            SelectSeq(paragraphs, LAMBDA p : extractInlineCitations(p) # <<>>)
        issues ==
            (IF Insufficient(Len(availableSources), citationCount,
                             minCitationsRequired)
             THEN {INSUFFICIENT} ELSE {})
            \cup (IF HasFactualContent(responseText) /\ citationCount = 0
                  THEN {UNSUPPORTED} ELSE {})
            \cup (IF Len(invalidCitations) > 0 THEN {UNAVAILABLE} ELSE {})
            \cup (IF Len(paragraphsWithFacts) > 0
                     /\ Len(paragraphsWithCitations) = 0
                  THEN {UNCOVERED} ELSE {})
        citedUrls == {u \in uniqueCitationUrls : u \in availableUrls}
    IN  [isValid |-> /\ issues = {}
                     /\ \/ Len(availableSources) = 0
                        \/ citationCount >= Min(minCitationsRequired,
                                                Len(availableSources)),
         citationCount |-> citationCount,
         sourceCount |-> Cardinality(uniqueCitationUrls),
         extractedCitations |-> extractedCitations,
         missingSourcesCount |->
             Max(0, Len(availableSources) - Cardinality(citedUrls)),
         issues |-> issues,
         invalidCitations |-> invalidCitations]

\* the answers and source lists the validator is tried on
Cite(title, url) == <<"[">> \o title \o <<"]", "(">> \o url \o <<")">>

Pieces ==
    {Cite(<<"Guide">>, <<u>>) : u \in CitedUrls}
    \cup {Cite(<<" ", "See", " ", "Guide", " ">>, <<" ", "See", " ", "Guide">>),
          <<"[", "Guide", "]", " ", "(", "https://canada.ca/path", ")">>,
          <<"[", "]", "(", "https://canada.ca/path", ")">>,
          <<"[">>, <<"tax">>, <<"\n\n">>}

RECURSIVE Flatten(_)
Flatten(pieces) ==
    IF pieces = <<>> THEN <<>> ELSE Head(pieces) \o Flatten(Tail(pieces))

Texts == {Flatten(ps) : ps \in SeqsUpTo(Pieces, 0, MaxPieces)}

SourceUris == {"https://canada.ca/path", "https://canada.ca/path?a=2&b=1"}
SourceLists ==
    {[i \in 1..Len(us) |-> [uri |-> <<us[i]>>]] :
        us \in SeqsUpTo(SourceUris, 0, MaxSources)}

CiteIdle ==
    /\ c_pc = "idle"
    /\ c_text = <<>>
    /\ c_sources = <<>>
    /\ c_min = 0
    /\ c_cites = <<>>
    /\ c_out = <<>>

-----------------------------------------------------------------------------
(* services/openaiService.ts: TaxResearchChat.sendMessage.  The source     *)
(* finder is taken by its result (searchWithRetry returns a list and never *)
(* throws); texts are token sequences as in the citation validator.        *)

\* lines 61-64
SystemMessage == [role |-> "system", content |-> <<"SYSTEM_INSTRUCTIONS">>]

CITATION_CONTEXT == "Relevant search results found"
LIMITED_NOTE == "Note: Limited search results were found"

\* [a context that never says that sources are missing]
ContextAlwaysCited(searchSources) == CITATION_CONTEXT

\* lines 201-210
SearchContext(searchSources) ==
    IF Len(searchSources) > 0 THEN CITATION_CONTEXT ELSE LIMITED_NOTE

\* lines 213-216: message + searchContext
UserMessage(searchSources) ==
    [role |-> "user", content |-> <<"message", SearchContext(searchSources)>>]

NotValidated == [isValid |-> TRUE, issues |-> {}, ran |-> FALSE]

\* lines 260-282: validateCitations(fullResponse, searchSources), logged
FinalValidation(fullResponse, searchSources) ==
    IF Trim(fullResponse) # <<>>
    THEN LET validation == validateCitations(fullResponse, searchSources, 2)
         IN  [isValid |-> validation.isValid, issues |-> validation.issues,
              ran |-> TRUE]
    ELSE NotValidated

\* [a response that is recorded only when its citations are valid]
AssistantMessageIfValid(fullResponse, validation) ==
    [role |-> "assistant",
     content |-> IF validation.isValid THEN fullResponse ELSE <<>>]

\* lines 285-288
AssistantMessage(fullResponse, validation) ==
    [role |-> "assistant", content |-> fullResponse]

\* lines 253-256 and 292-295
Yielded(text, searchSources) == [text |-> text, sources |-> searchSources]
Apology == Yielded(<<"I apologize">>, <<>>)

\* what searchWithRetry may hand over, and what the generation backend may
\* stream: chunks of text, then the end of the stream or an error
ChatSources ==
    {<<>>,
     <<[uri |-> <<"https://canada.ca/path">>]>>,
     <<[uri |-> <<"https://canada.ca/path">>],
       [uri |-> <<"https://canada.ca/path?a=2&b=1">>]>>}
ChunkContents == {<<"tax">>, Cite(<<"Guide">>, <<"https://canada.ca/path">>)}
Streams == SeqsUpTo(ChunkContents, 0, MaxChunks)

ChatIdle ==
    /\ s_pc = "off"
    /\ s_calls = 0
    /\ s_history = <<>>
    /\ s_sources = <<>>
    /\ s_request = <<>>
    /\ s_chunks = <<>>
    /\ s_stream = <<>>
    /\ s_fails = FALSE
    /\ s_full = <<>>
    /\ s_yielded = <<>>
    /\ s_validation = NotValidated
    /\ s_outcome = "none"

\* line 198
SM_Search ==
    /\ UNCHANGED <<urlVars, webVars, pipeVars, citeVars, scoreVars>>
    /\ s_pc = "idle"
    /\ s_calls < MaxCalls
    /\ s_calls' = s_calls + 1
    /\ s_sources' \in ChatSources
    /\ s_request' = <<>>
    /\ s_chunks' = <<>>
    /\ s_stream' = <<>>
    /\ s_fails' = FALSE
    /\ s_full' = <<>>
    /\ s_yielded' = <<>>
    /\ s_validation' = NotValidated
    /\ s_outcome' = "running"
    /\ s_pc' = "context"
    /\ UNCHANGED s_history

\* lines 200-216
SM_Context ==
    /\ UNCHANGED <<urlVars, webVars, pipeVars, citeVars, scoreVars>>
    /\ s_pc = "context"
    /\ s_history' = Append(s_history, UserMessage(s_sources))
    /\ s_pc' = "create"
    /\ UNCHANGED <<s_calls, s_sources, s_request, s_chunks, s_stream, s_fails,
                   s_full, s_yielded, s_validation, s_outcome>>

\* lines 219-230: the generation request; it throws, or a stream opens
SM_Create ==
    /\ UNCHANGED <<urlVars, webVars, pipeVars, citeVars, scoreVars>>
    /\ s_pc = "create"
    /\ s_request' = s_history
    /\ \/ /\ s_pc' = "catch"
          /\ UNCHANGED <<s_chunks, s_stream, s_fails>>
       \/ /\ s_chunks' \in Streams
          /\ s_stream' = s_chunks'
          /\ s_fails' \in BOOLEAN
          /\ s_pc' = "stream"
    /\ UNCHANGED <<s_calls, s_history, s_sources, s_full, s_yielded,
                   s_validation, s_outcome>>

\* lines 233-257: one chunk
SM_Chunk ==
    /\ UNCHANGED <<urlVars, webVars, pipeVars, citeVars, scoreVars>>
    /\ s_pc = "stream"
    /\ s_stream # <<>>
    /\ s_full' = s_full \o Head(s_stream)
    /\ s_yielded' = Append(s_yielded, Yielded(Head(s_stream), s_sources))
    /\ s_stream' = Tail(s_stream)
    /\ UNCHANGED <<s_pc, s_calls, s_history, s_sources, s_request, s_chunks,
                   s_fails, s_validation, s_outcome>>

\* the stream throws after its last chunk
SM_StreamError ==
    /\ UNCHANGED <<urlVars, webVars, pipeVars, citeVars, scoreVars>>
    /\ s_pc = "stream"
    /\ s_stream = <<>>
    /\ s_fails
    /\ s_pc' = "catch"
    /\ UNCHANGED <<s_calls, s_history, s_sources, s_request, s_chunks,
                   s_stream, s_fails, s_full, s_yielded, s_validation,
                   s_outcome>>

\* lines 259-282
SM_Validate ==
    /\ UNCHANGED <<urlVars, webVars, pipeVars, citeVars, scoreVars>>
    /\ s_pc = "stream"
    /\ s_stream = <<>>
    /\ ~s_fails
    /\ s_validation' = FinalValidation(s_full, s_sources)
    /\ s_pc' = "push"
    /\ UNCHANGED <<s_calls, s_history, s_sources, s_request, s_chunks,
                   s_stream, s_fails, s_full, s_yielded, s_outcome>>

\* lines 284-288
SM_Push ==
    /\ UNCHANGED <<urlVars, webVars, pipeVars, citeVars, scoreVars>>
    /\ s_pc = "push"
    /\ s_history' = Append(s_history, AssistantMessage(s_full, s_validation))
    /\ s_outcome' = "completed"
    /\ s_pc' = "idle"
    /\ UNCHANGED <<s_calls, s_sources, s_request, s_chunks, s_stream, s_fails,
                   s_full, s_yielded, s_validation>>

\* lines 290-296
SM_Catch ==
    /\ UNCHANGED <<urlVars, webVars, pipeVars, citeVars, scoreVars>>
    /\ s_pc = "catch"
    /\ s_yielded' = Append(s_yielded, Apology)
    /\ s_outcome' = "error"
    /\ s_pc' = "idle"
    /\ UNCHANGED <<s_calls, s_history, s_sources, s_request, s_chunks,
                   s_stream, s_fails, s_full, s_validation>>

-----------------------------------------------------------------------------
(* The specifications *)

UrlIdle ==
    /\ u_pc = "idle"
    /\ u_url = EmptyString
    /\ u_once = EmptyString
    /\ u_net = <<>>
    /\ u_out = <<>>

WebIdle ==
    /\ w_pc = "idle"
    /\ w_key = FALSE
    /\ w_resp = NoResults("noweb")
    /\ w_out = <<>>

ScoreIdle ==
    /\ a_pc = "idle"
    /\ a_domains = <<>>
    /\ a_replies = <<>>
    /\ a_out = <<>>

PipeIdle ==
    /\ pc = "idle"
    /\ mode = "none"
    /\ hasKey = FALSE
    /\ message = <<>>
    /\ count = 0
    /\ searchQueries = <<>>
    /\ searchResults = <<>>
    /\ verifiedSources = <<>>
    /\ seenUrls = {}
    /\ sources = <<>>
    /\ broaderTerms = <<>>
    /\ surfaced = FALSE
    /\ configErrors = 0
    /\ failedUrls = {}
    /\ last = "none"
    /\ plannerFailed = FALSE
    /\ tiers = <<>>

\* searchWithRetry always asks for 8 sources (line 76)
RetryCount2 == 16

\* a request: searchWithRetry(message), whose first step is the call of
\* searchTaxResources(message, 8), or searchTaxResources(message, count).
\* The aggregator reads its query only to interpolate it into requests, so
\* the direct call is made with one message
Init ==
    /\ pc = "str_plan"
    /\ \/ /\ mode = "searchWithRetry"
          /\ count = RetryCount2
          /\ message \in Messages
       \/ /\ mode = "searchTaxResources"
          /\ count \in 0..MaxCount2
          /\ message = <<"tax", "credit">>
    /\ hasKey \in BOOLEAN
    /\ searchQueries = <<>>
    /\ searchResults = <<>>
    /\ verifiedSources = <<>>
    /\ seenUrls = {}
    /\ sources = <<>>
    /\ broaderTerms = <<>>
    /\ surfaced = FALSE
    /\ configErrors = 0
    /\ failedUrls = {}
    /\ last = "none"
    /\ plannerFailed = FALSE
    /\ tiers = <<>>
    /\ UrlIdle
    /\ WebIdle
    /\ CiteIdle
    /\ ChatIdle
    /\ ScoreIdle

Next ==
    \/ STR_Plan
    \/ STR_Start
    \/ STR_Search
    \/ STR_Candidate
    \/ STR_Return
    \/ SWR_Direct
    \/ SWR_Simplified
    \/ SWR_Broader
    \/ SWR_Return
    \/ SWR_Catch

Spec == Init /\ [][Next]_vars

\* SpecScore: the two scorers and the two domain tables, applied to every
\* pair of hostnames and every pair of answers of the scoring model
ScoredHosts ==
    {"canada.ca", "www.cra-arc.gc.ca", "www.ontario.ca", "www.canlii.org",
     "www.cpacanada.ca", "www.cba.org", "utoronto.edu", "kpmg.com",
     "www.taxtips.ca", "en.wikipedia.org", "example.com"}

\* what parseInt reads in the completion: "-5", "0", "19", "50", "100", "250"
ScoreTexts == {0 - 5, 0, 19, 50, 100, 250}
ScoreReplies == {ModelFailed, ModelSaidWords} \cup {ModelSaid(n) : n \in ScoreTexts}

InitScore ==
    /\ a_pc = "input"
    /\ a_domains \in ScoredHosts \X ScoredHosts
    /\ a_replies \in ScoreReplies \X ScoreReplies
    /\ a_out = <<>>
    /\ UrlIdle
    /\ WebIdle
    /\ PipeIdle
    /\ CiteIdle
    /\ ChatIdle

ScoreSources ==
    /\ a_pc = "input"
    /\ a_out' =
          [relevance |-> verifyContentClaims(a_replies[1]),
           authority |->
              [i \in 1..2 |->
                  verifySourceAuthority(
                      Url("https", a_domains[i], <<"x">>, <<>>, FALSE),
                      a_replies[2])],
           fallback |-> [i \in 1..2 |-> AuthorityFallback(a_domains[i])],
           reliability |-> [i \in 1..2 |-> getDomainReliabilityScore(a_domains[i])]]
    /\ a_pc' = "scored"
    /\ UNCHANGED <<a_domains, a_replies>>
    /\ UNCHANGED <<urlVars, webVars, pipeVars, citeVars, chatVars>>

NextScore == ScoreSources

SpecScore == InitScore /\ [][NextScore]_vars

\* SpecUrl: the URL utilities applied to every URL string of the bound
InitUrl ==
    /\ u_pc = "input"
    /\ u_url \in UrlStrings
    /\ u_once = EmptyString
    /\ u_net = <<>>
    /\ u_out = <<>>
    /\ WebIdle
    /\ PipeIdle
    /\ CiteIdle
    /\ ChatIdle
    /\ ScoreIdle

Normalize ==
    /\ u_pc = "input"
    /\ u_once' = normalizeUrl(u_url)
    /\ u_pc' = "normalized"
    /\ UNCHANGED <<u_url, u_net, u_out>>
    /\ UNCHANGED <<webVars, pipeVars, citeVars, chatVars, scoreVars>>

Verify ==
    /\ u_pc = "input"
    /\ \E net \in Networks :
          /\ u_net' = net
          /\ u_out' = verifySourceUrl(u_url, net)
    /\ u_pc' = "verified"
    /\ UNCHANGED <<u_url, u_once>>
    /\ UNCHANGED <<webVars, pipeVars, citeVars, chatVars, scoreVars>>

NextUrl == Normalize \/ Verify

SpecUrl == InitUrl /\ [][NextUrl]_vars

\* SpecWeb: one searchWeb call against every answer of the search backend
InitWeb ==
    /\ w_pc = "call"
    /\ w_key \in BOOLEAN
    /\ w_resp \in BackendResponses
    /\ w_out = <<>>
    /\ UrlIdle
    /\ PipeIdle
    /\ CiteIdle
    /\ ChatIdle
    /\ ScoreIdle

SearchWebCall ==
    /\ w_pc = "call"
    /\ \E nets \in [1..Len(w_resp.results) -> PageNetworks] :
          w_out' = searchWeb(Query("message", ""), 4, w_key, w_resp, nets)
    /\ w_pc' = "returned"
    /\ UNCHANGED <<w_key, w_resp>>
    /\ UNCHANGED <<urlVars, pipeVars, citeVars, chatVars, scoreVars>>

NextWeb == SearchWebCall

SpecWeb == InitWeb /\ [][NextWeb]_vars

\* SpecCalls: a request through the pipeline, or one searchWeb call
InitCalls == Init \/ InitWeb

NextCalls == Next \/ NextWeb

SpecCalls == InitCalls /\ [][NextCalls]_vars

\* SpecCite: the citation validator on every text and source list of the bound
InitCite ==
    /\ c_pc = "input"
    /\ c_text \in Texts
    /\ c_sources \in SourceLists
    /\ c_min \in 1..MaxMin
    /\ c_cites = <<>>
    /\ c_out = <<>>
    /\ UrlIdle
    /\ WebIdle
    /\ PipeIdle
    /\ ChatIdle
    /\ ScoreIdle

Extract ==
    /\ c_pc = "input"
    /\ c_cites' = extractInlineCitations(c_text)
    /\ c_pc' = "extracted"
    /\ UNCHANGED <<c_text, c_sources, c_min, c_out>>
    /\ UNCHANGED <<urlVars, webVars, pipeVars, chatVars, scoreVars>>

Validate ==
    /\ c_pc = "input"
    /\ c_out' = validateCitations(c_text, c_sources, c_min)
    /\ c_pc' = "validated"
    /\ UNCHANGED <<c_text, c_sources, c_min, c_cites>>
    /\ UNCHANGED <<urlVars, webVars, pipeVars, chatVars, scoreVars>>

NextCite == Extract \/ Validate

SpecCite == InitCite /\ [][NextCite]_vars

\* SpecChat: a TaxResearchChat after its constructor, and its sendMessage
\* calls, each run to completion before the next
InitChat ==
    /\ s_pc = "idle"
    /\ s_calls = 0
    /\ s_history = <<SystemMessage>>
    /\ s_sources = <<>>
    /\ s_request = <<>>
    /\ s_chunks = <<>>
    /\ s_stream = <<>>
    /\ s_fails = FALSE
    /\ s_full = <<>>
    /\ s_yielded = <<>>
    /\ s_validation = NotValidated
    /\ s_outcome = "none"
    /\ UrlIdle
    /\ WebIdle
    /\ PipeIdle
    /\ CiteIdle
    /\ ScoreIdle

NextChat ==
    \/ SM_Search
    \/ SM_Context
    \/ SM_Create
    \/ SM_Chunk
    \/ SM_StreamError
    \/ SM_Validate
    \/ SM_Push
    \/ SM_Catch

SpecChat == InitChat /\ [][NextChat]_vars

-----------------------------------------------------------------------------
(* C7: normalization is idempotent: normalizing an already normalized URL  *)
(* changes nothing, normalizeUrl(normalizeUrl(u)) = normalizeUrl(u), for   *)
(* every URL string u.                                                     *)
C7_NormalizeIdempotent ==
    u_pc = "normalized" => normalizeUrl(u_once) = u_once

(* C10: verifySourceUrl never throws; whenever the URL is malformed or of  *)
(* an unsupported scheme, the HEAD request is rejected or times out, or    *)
(* HEAD is not 2xx and no GET fallback answered 2xx, it returns            *)
(* isValid = false, status = Failed and finalUrl = the normalized original *)
(* URL, and every invalid outcome has that shape.                          *)
UnrecoverableFailure(url, net) ==
    \/ ~url.ok
    \/ url.scheme \notin {"http", "https"}
    \/ net.head.kind = "error"
    \/ /\ ~ResponseOk(net.head)
       /\ ~(net.head.status \in {403, 405} /\ ResponseOk(net.get))

FailedOutcome(out, url) ==
    /\ ~out.isValid
    /\ out.status = FAILED
    /\ out.finalUrl = normalizeUrl(url)

C10_VerifyNeverThrows ==
    u_pc = "verified" =>
        /\ ~u_out.threw
        /\ UnrecoverableFailure(u_url, u_net) => FailedOutcome(u_out.value, u_url)
        /\ ~u_out.value.isValid => FailedOutcome(u_out.value, u_url)

\* a 404 after a redirect, on a URL that normalization changes
C10_Witness ==
    /\ u_pc = "verified"
    /\ u_net.head.kind = "resp" /\ u_net.head.status = 404
    /\ u_net.head.url \in RedirectTargets
    /\ normalizeUrl(u_url) # u_url
    /\ ~u_out.value.isValid

-----------------------------------------------------------------------------
(* The value searchTaxResources returned is in `sources` from its return   *)
(* until the caller's next step                                            *)
StrReturned ==
    \/ mode = "searchTaxResources" /\ pc = "done"
    \/ mode = "searchWithRetry" /\ pc = "swr_direct"

SwrReturned == mode = "searchWithRetry" /\ pc = "done"

Passed(source) ==
    /\ source.prov.via = "aggregator"
    /\ source.prov.verified
    /\ source.prov.specific
    /\ source.prov.floors

(* C1: the filter is strict: searchWithRetry returns only sources that     *)
(* passed the verification layers of the aggregator, even when fewer than  *)
(* three of them, or none, did; it never fills the list with candidates    *)
(* that were not verified.                                                 *)
C1_StrictFilter ==
    SwrReturned => \A i \in 1..Len(sources) : Passed(sources[i])

(* C2: searchTaxResources returns no URI twice: of any two entries of its  *)
(* output, the final normalized URIs differ.                               *)
C2_NoDuplicateUri ==
    StrReturned =>
        \A i, j \in 1..Len(sources) : i # j => sources[i].uri # sources[j].uri

C4_Thresholds ==
    StrReturned => \A i \in 1..Len(sources) : sources[i].prov.floors

\* the last candidate had authority >= 10 and a composite >= 40, was
\* dropped for its relevance alone, and an earlier candidate is returned
C4_Witness ==
    /\ StrReturned
    /\ last = "relevance"
    /\ Len(sources) >= 1

(* C5: searchTaxResources(query, n) returns at most n sources for every    *)
(* n >= 0 (count holds 2n), however many results the backend sent.         *)
C5_CountBound ==
    StrReturned => 2 * Len(sources) <= count

\* n = 1.5: two candidates passed every layer and one source is returned
C5_Witness ==
    /\ StrReturned
    /\ count = 3
    /\ Len(verifiedSources) = 2
    /\ Len(sources) = 1

(* C6: the output of searchTaxResources is ordered by composite score, the *)
(* highest first: the score never rises from one position to the next.     *)
C6_Ranked ==
    StrReturned =>
        \A i, j \in 1..Len(sources) :
            i < j => sources[i].prov.overall >= sources[j].prov.overall

\* three sources passed in rising order of score and are returned in
\* falling order
C6_Witness ==
    /\ StrReturned
    /\ Len(sources) = 3
    /\ verifiedSources[1].prov.overall < verifiedSources[2].prov.overall
    /\ verifiedSources[2].prov.overall < verifiedSources[3].prov.overall
    /\ sources[1].prov.overall > sources[3].prov.overall

(* C8: searchWeb fails soft: with the key configured, when the request     *)
(* fails in transport, the backend answers a non-2xx status, or the body   *)
(* has no web results or is malformed, searchWeb returns the empty list    *)
(* and does not throw.                                                     *)
C8_FailsSoft ==
    (w_pc = "returned" /\ w_key /\ w_resp.kind \in BackendFailures \cup {"noweb"})
        => (~w_out.threw /\ w_out.value = <<>>)

\* the backend answered a non-2xx status
C8_Witness ==
    /\ w_pc = "returned"
    /\ w_key
    /\ w_resp.kind = "non2xx"
    /\ ~w_out.threw
    /\ w_out.value = <<>>

(* C9: a configuration error is fatal and is not retried: with the search  *)
(* key missing, the first search is the only one attempted and the request *)
(* ends with the error surfaced to the caller.                             *)
C9_ConfigErrorFatal ==
    /\ configErrors <= 1
    /\ (pc = "done" /\ configErrors >= 1) => surfaced

(* C11: searchWeb returns validated sources only: every source of the list *)
(* it returns is one whose URL validation (verifySourceUrl) succeeded in   *)
(* that call.                                                              *)
C11_ValidatedOnly ==
    (w_pc = "returned" /\ ~w_out.threw) =>
        \A i \in 1..Len(w_out.value) : w_out.value[i].prov.verified

-----------------------------------------------------------------------------
(* The citation validator's claims (SpecCite) *)

\* the citation pattern [Title](URL) lies on the tokens lo..hi: a
\* bracket pair with something other than "]" inside, at once followed by
\* a parenthesis pair with something other than ")" inside
IsCitationSpan(text, lo, hi) ==
    /\ 1 <= lo /\ hi <= Len(text)
    /\ text[lo] = "[" /\ text[hi] = ")"
    /\ \E mid \in (lo + 2)..(hi - 3) :
          /\ text[mid] = "]" /\ text[mid + 1] = "("
          /\ \A i \in (lo + 1)..(mid - 1) : text[i] # "]"
          /\ \A i \in (mid + 2)..(hi - 1) : text[i] # ")"

\* the bracket and the parenthesis contents of a citation span
SpanTitle(text, lo, hi) ==
    LET mid == CHOOSE m \in lo..hi : text[m] = "]"
                   /\ \A i \in lo..(m - 1) : text[i] # "]"
    IN  SubSeq(text, lo + 1, mid - 1)

SpanUrl(text, lo, hi) ==
    LET mid == CHOOSE m \in lo..hi : text[m] = "]"
                   /\ \A i \in lo..(m - 1) : text[i] # "]"
    IN  SubSeq(text, mid + 2, hi - 1)

\* t is s without its leading and trailing white space
IsTrimOf(t, s) ==
    /\ t = <<>> \/ (t[1] \notin Blank /\ t[Len(t)] \notin Blank)
    /\ \E a \in 1..(Len(s) + 1) :
          /\ a + Len(t) - 1 <= Len(s)
          /\ t = SubSeq(s, a, a + Len(t) - 1)
          /\ \A i \in 1..(a - 1) : s[i] \in Blank
          /\ \A i \in (a + Len(t))..Len(s) : s[i] \in Blank

\* the cited URL designates the source: the same string, or the same URL
\* up to a www. prefix, one trailing slash, the fragment, the order of the
\* query parameters and the case
SameParams(p, q) ==
    /\ Len(p) = Len(q)
    /\ \A n \in {toLowerCase(p[i]) : i \in 1..Len(p)} :
          Cardinality({i \in 1..Len(p) : toLowerCase(p[i]) = n})
            = Cardinality({i \in 1..Len(q) : toLowerCase(q[i]) = n})

Designates(cited, uri) ==
    \/ cited = uri
    \/ LET a == ParseTokens(cited)
           b == ParseTokens(uri)
       IN  IF a.ok /\ b.ok
           THEN /\ a.scheme = b.scheme
                /\ StripWww(a.host) = StripWww(b.host)
                /\ LowerAll(StripTrailingSlash(a.path))
                     = LowerAll(StripTrailingSlash(b.path))
                /\ SameParams(a.query, b.query)
           ELSE ~a.ok /\ ~b.ok /\ LowerAll(cited) = LowerAll(uri)

Cited(source, citations) ==
    \E n \in 1..Len(citations) : Designates(citations[n].url, source.uri)

(* C12: citation minimum: when more than one source is available and the   *)
(* text holds fewer citations than minCitations, validateCitations returns *)
(* isValid = false and the insufficiency message is among the issues.      *)
C12_CitationMinimum ==
    (/\ c_pc = "validated"
     /\ Len(c_sources) > 1
     /\ Len(extractInlineCitations(c_text)) < c_min)
        => (~c_out.isValid /\ INSUFFICIENT \in c_out.issues)

\* three available sources, a text without any citation, the default minimum
C12_Witness ==
    /\ c_pc = "validated"
    /\ Len(c_sources) = 3
    /\ c_text = <<"tax">>
    /\ c_min = 2
    /\ c_out.citationCount = 0
    /\ ~c_out.isValid
    /\ INSUFFICIENT \in c_out.issues

(* C13: URL fidelity: validateCitations flags a citation as referencing an *)
(* unavailable source if and only if its URL designates no available       *)
(* source, neither exactly nor after comparison-normalization (www.        *)
(* stripped, trailing slash and fragment removed, query parameters sorted, *)
(* lowercased); the issue is raised exactly when some citation is flagged. *)
C13_UrlFidelity ==
    c_pc = "validated" =>
        /\ \A n \in 1..Len(c_out.extractedCitations) :
              LET c == c_out.extractedCitations[n]
              IN  (\E m \in 1..Len(c_out.invalidCitations) :
                      c_out.invalidCitations[m] = c)
                  <=> ~(\E i \in 1..Len(c_sources) :
                           Designates(c.url, c_sources[i].uri))
        /\ UNAVAILABLE \in c_out.issues <=> c_out.invalidCitations # <<>>

\* https://www.canada.ca/path/ is cited, https://canada.ca/path is the one
\* available source, and nothing is flagged
C13_Witness ==
    /\ c_pc = "validated"
    /\ c_text = Cite(<<"Guide">>, <<"https://www.canada.ca/path/">>)
    /\ c_sources = <<[uri |-> <<"https://canada.ca/path">>]>>
    /\ c_out.citationCount = 1
    /\ c_out.invalidCitations = <<>>
    /\ UNAVAILABLE \notin c_out.issues

(* C14: missingSourcesCount is the number of available sources that were   *)
(* never cited: the sources that no extracted citation designates under    *)
(* the matching of the URL-fidelity check, repeated uris included.         *)
C14_MissingSourcesCount ==
    c_pc = "validated" =>
        c_out.missingSourcesCount =
            Cardinality({i \in 1..Len(c_sources) :
                            ~Cited(c_sources[i], c_out.extractedCitations)})

(* C15: extractInlineCitations returns one CitationMatch per occurrence of *)
(* [Title](URL), left to right and without overlap: each match lies on a   *)
(* citation span that starts at or after the end of the match before it,   *)
(* endIndex = startIndex + the length of the matched text, title and url   *)
(* are the trimmed bracket and parenthesis contents, and every citation    *)
(* span of the text is a match or starts inside one.                       *)
C15_Extraction ==
    c_pc = "extracted" =>
        /\ \A n \in 1..Len(c_cites) :
              LET c == c_cites[n]
              IN  /\ IsCitationSpan(c_text, c.first, c.last)
                  /\ c.text = SubSeq(c_text, c.first, c.last)
                  /\ c.startIndex = TextLength(SubSeq(c_text, 1, c.first - 1))
                  /\ c.endIndex = c.startIndex + TextLength(c.text)
                  /\ IsTrimOf(c.title, SpanTitle(c_text, c.first, c.last))
                  /\ IsTrimOf(c.url, SpanUrl(c_text, c.first, c.last))
                  /\ n > 1 => /\ c.first > c_cites[n - 1].last
                              /\ c.startIndex >= c_cites[n - 1].endIndex
        /\ \A lo, hi \in 1..Len(c_text) :
              IsCitationSpan(c_text, lo, hi) =>
                  \E n \in 1..Len(c_cites) :
                      \/ c_cites[n].first = lo /\ c_cites[n].last = hi
                      \/ c_cites[n].first < lo /\ lo <= c_cites[n].last

\* two citations, the lo with white space around its title and its url
C15_Witness ==
    /\ c_pc = "extracted"
    /\ Len(c_cites) = 2
    /\ c_cites[1].title = <<"See", " ", "Guide">>
    /\ c_cites[1].url = <<"See", " ", "Guide">>
    /\ Len(c_cites[1].text) = 13
    /\ c_cites[2].url = <<"https://canada.ca/path">>
    /\ c_cites[2].startIndex = c_cites[1].endIndex

-----------------------------------------------------------------------------
(* The claims on sendMessage (SpecChat) *)

\* the user message this call pushed: the last user message of the history
LastUserMessage(history) ==
    LET users == {i \in 1..Len(history) : history[i].role = "user"}
    IN  history[CHOOSE i \in users : \A j \in users : j <= i]

ContextPushed == s_outcome \in {"running", "completed", "error"}
                    /\ s_pc \in {"create", "stream", "push", "catch", "idle"}
RequestIssued == s_outcome \in {"running", "completed", "error"}
                    /\ s_pc \in {"stream", "push", "catch", "idle"}
Completed == s_pc = "idle" /\ s_outcome = "completed"

\* the chunks of the stream, each yielded with the call's source list
ChunksYielded ==
    [i \in 1..Len(s_chunks) |-> Yielded(s_chunks[i], s_sources)]

(* C16: when source finding yields the empty list, sendMessage does not    *)
(* fail the request: the user message carries the limited-sources note,    *)
(* the generation request is issued with it, every chunk is yielded with   *)
(* the empty source list, and the catch block is entered only after the    *)
(* generation request was issued.                                          *)
C16_LimitedSources ==
    (s_outcome # "none" /\ s_sources = <<>>) =>
        /\ ContextPushed =>
              LastUserMessage(s_history).content = <<"message", LIMITED_NOTE>>
        /\ RequestIssued =>
              /\ s_request # <<>>
              /\ s_request[Len(s_request)].content = <<"message", LIMITED_NOTE>>
        /\ s_pc = "catch" => s_request # <<>>
        /\ Completed => s_yielded = ChunksYielded
        /\ \A i \in 1..Len(s_yielded) : s_yielded[i].sources = <<>>

\* no source, and an answer of two chunks streamed to its end
C16_Witness ==
    /\ Completed
    /\ s_sources = <<>>
    /\ Len(s_chunks) = 2
    /\ s_yielded = ChunksYielded
    /\ s_history[Len(s_history)].role = "assistant"

(* C17: a citation-validation failure never blocks delivery: when          *)
(* validateCitations runs every chunk has been yielded, and whatever its   *)
(* result the chunks yielded stay as they were and the full response is    *)
(* appended to the conversation history.                                   *)
C17_ValidationNeverBlocks ==
    /\ (s_pc = "push" \/ Completed) => s_yielded = ChunksYielded
    /\ Completed =>
          s_history[Len(s_history)] =
              [role |-> "assistant", content |-> Flatten(s_chunks)]

\* sources were available, the answer has no citation, the validation ran
\* and failed, and the call completed
C17_Witness ==
    /\ Completed
    /\ Len(s_sources) = 2
    /\ s_chunks = <<<<"tax">>, <<"tax">>>>
    /\ s_validation.ran
    /\ ~s_validation.isValid

(* C18: the list searchWithRetry returns holds each uri once: no two of    *)
(* its sources have the same uri, whichever tiers contributed to it.       *)
C18_RetryNoDuplicateUri ==
    SwrReturned =>
        \A i \in 1..Len(sources) : \A j \in 1..Len(sources) :
            i < j => sources[i].uri # sources[j].uri

(* C19: a failure of the query planner degrades to the fallback queries:   *)
(* when the planner's request is rejected, answers a non-2xx status or has *)
(* a body of an unexpected shape, generateTargetedSearchQueries returns    *)
(* the four templated fallback queries, and searchTaxResources goes on to  *)
(* return a list; no error reaches its caller.                             *)
C19_PlannerFailsSoft ==
    plannerFailed =>
        /\ pc = "str_planned" => searchQueries = FallbackQueries
        /\ ~surfaced

C19_Witness ==
    /\ plannerFailed
    /\ mode = "searchTaxResources"
    /\ pc = "done"
    /\ Len(sources) >= 1

(* C20: generateTargetedSearchQueries returns between one and four queries *)
(* whatever the generation backend answers, a failure or a success with    *)
(* any text, empty or blank text included; output that cannot be used      *)
(* leads to the fallback queries.                                          *)
C20_PlannerQueryCount ==
    pc = "str_planned" =>
        /\ Len(searchQueries) >= 1
        /\ Len(searchQueries) <= Len(FallbackQueries)
        /\ plannerFailed => searchQueries = FallbackQueries

-----------------------------------------------------------------------------
(* The requests of one verifySourceUrl call *)
Issued(kind) ==
    Cardinality({i \in 1..Len(u_out.requests) : u_out.requests[i] = kind})

Supported(url) == url.ok /\ url.scheme \in {"http", "https"}

Is2xx(r) == r.kind = "resp" /\ r.status \in 200..299

(* C21: HEAD, then the GET fallback: verifySourceUrl issues the ranged GET  *)
(* fallback at most once, and only when the HEAD response has status 403   *)
(* or 405; the outcome is valid exactly when the HEAD response is 2xx or   *)
(* the fallback GET response is 2xx; any other HEAD status (404, 500)      *)
(* gives Failed and no GET at all.                                         *)
C21_HeadThenGet ==
    (u_pc = "verified" /\ Supported(u_url)) =>
        LET head == u_net.head
            fallback == head.kind = "resp" /\ head.status \in {403, 405}
        IN  /\ Issued("HEAD") = 1
            /\ Issued("GET") <= 1
            /\ Issued("GET") = 1 <=> fallback
            /\ u_out.value.isValid <=> (Is2xx(head) \/ (fallback /\ Is2xx(u_net.get)))
            /\ (head.kind = "resp" /\ ~Is2xx(head) /\ ~fallback) =>
                  /\ u_out.value.status = FAILED
                  /\ u_out.requests = <<"HEAD">>

\* a 405 on HEAD, saved by a 206 on the ranged GET
C21_Witness ==
    /\ u_pc = "verified"
    /\ Supported(u_url)
    /\ u_net.head.kind = "resp" /\ u_net.head.status = 405
    /\ u_net.get.kind = "resp" /\ u_net.get.status = 206
    /\ u_out.requests = <<"HEAD", "GET">>
    /\ u_out.value.isValid

(* C22: for a malformed URL, or one whose scheme is neither http nor       *)
(* https, verifySourceUrl returns the failed outcome and issues no request *)
(* at all: no HEAD, no GET, no title fetch.                                *)
C22_NoRequestForBadUrl ==
    (u_pc = "verified" /\ ~Supported(u_url)) =>
        /\ u_out.requests = <<>>
        /\ ~u_out.threw
        /\ ~u_out.value.isValid
        /\ u_out.value.status = FAILED

\* an ftp URL, against a network that would answer 200
C22_Witness ==
    /\ u_pc = "verified"
    /\ u_url.ok /\ u_url.scheme = "ftp"
    /\ Is2xx(u_net.head)
    /\ u_out.requests = <<>>
    /\ u_out.value.status = FAILED

(* C23: homepage redirects are flagged by the caller of the URL verifier:  *)
(* a candidate whose verified final URL is on a homepage path ("/", or a   *)
(* name starting with /index, /home or /default) is detected by the        *)
(* pipeline and is not emitted as an accepted source of                    *)
(* searchTaxResources.                                                     *)
C23_HomepageFlagged ==
    StrReturned => \A i \in 1..Len(sources) : ~isHomepage(sources[i].uri)

-----------------------------------------------------------------------------
(* The tiers of the authority table, by what the site is: 1 government and *)
(* legal, 2 professional bodies and education, 3 major advisory firms,     *)
(* 4 general                                                               *)
TierOf(host) ==
    CASE host \in {"canada.ca", "www.cra-arc.gc.ca", "www.ontario.ca",
                   "www.canlii.org"} -> 1
      [] host \in {"www.cpacanada.ca", "www.cba.org", "utoronto.edu"} -> 2
      [] host \in {"kpmg.com"} -> 3
      [] OTHER -> 4

(* C27: the deterministic authority fallback table respects the tier order *)
(* government/legal > professional bodies/education > major advisory firms *)
(* > general: of two domains, the one in the higher tier never scores      *)
(* lower (an educational domain scores above a major advisory firm, which  *)
(* scores above a general domain), and every score is within 0..100.       *)
C27_TierOrder ==
    a_pc = "scored" =>
        /\ \A i \in 1..2 : a_out.fallback[i] \in 0..100
        /\ \A i \in 1..2 : a_out.reliability[i] \in 0..100
        /\ TierOf(a_domains[1]) < TierOf(a_domains[2]) =>
              /\ a_out.fallback[1] >= a_out.fallback[2]
              /\ a_out.reliability[1] >= a_out.reliability[2]

(* C28: verifyContentClaims and verifySourceAuthority always return an     *)
(* integer in 0..100: a numeric reply of the model is clamped to that      *)
(* range, a reply that is not a number gives the neutral default 50, and a *)
(* failed model call gives 50 for relevance and the value of the domain    *)
(* table for authority.                                                    *)
Clamped(n) == IF n < 0 THEN 0 ELSE IF n > 100 THEN 100 ELSE n

Expected(reply, onFailure) ==
    IF reply.kind # "text" THEN onFailure
    ELSE IF reply.nan THEN 50
    ELSE Clamped(reply.n)

C28_ScoreRange ==
    a_pc = "scored" =>
        /\ a_out.relevance \in 0..100
        /\ a_out.relevance = Expected(a_replies[1], 50)
        /\ \A i \in 1..2 :
              /\ a_out.authority[i] \in 0..100
              /\ a_out.authority[i] = Expected(a_replies[2], a_out.fallback[i])

\* "250" for relevance, a failed call for the authority of a .edu host
C28_Witness ==
    /\ a_pc = "scored"
    /\ a_replies[1] = ModelSaid(250)
    /\ a_replies[2] = ModelFailed
    /\ a_domains[1] = "utoronto.edu"
    /\ a_out.relevance = 100
    /\ a_out.authority[1] = 60

(* C26: early stop: once searchTaxResources has accepted `count` sources,  *)
(* processing stops: no search request is issued for the planned queries   *)
(* that remain (no step takes a query off the plan), and no further        *)
(* candidate is verified, extracted or scored (no step adds to seenUrls or *)
(* to the accepted sources).                                               *)
C26_EarlyStop ==
    [][(/\ pc = "str_loop"
        /\ verifiedSources # <<>>
        /\ AtLimit(Len(verifiedSources), count)) =>
          /\ searchQueries' = searchQueries
          /\ seenUrls' = seenUrls
          /\ verifiedSources' = verifiedSources]_vars

(* C25: escalation order in searchWithRetry: a broader tier fires only     *)
(* after the narrower ones have completed and under-delivered: the direct  *)
(* web search runs only if the enhanced search returned fewer than 3       *)
(* sources, the simplified-query search only if fewer than 2 sources are   *)
(* held (and the simplified query is not empty and differs from the        *)
(* message), and the searches of the generic broader terms only if no      *)
(* source is held, so that they stop at the first term with any result.    *)
Fired(tier) == tiers' = Append(tiers, tier)

TiersSoFar == {tiers[i] : i \in 1..Len(tiers)}

C25_EscalationOrder ==
    [][/\ Fired("direct") =>
            /\ tiers = <<>>
            /\ StrReturned
            /\ Len(sources) < 3
       /\ Fired("simplified") =>
            /\ TiersSoFar \subseteq {"direct"}
            /\ Len(sources) < 2
            /\ simplifyQuery(message) # <<>>
            /\ simplifyQuery(message) # message
       /\ Fired("broader") =>
            /\ TiersSoFar \subseteq {"direct", "simplified", "broader"}
            /\ Len(sources) = 0
       /\ (Fired("broader") /\ sources' # <<>>) => pc' = "swr_broader" /\ broaderTerms' = <<>>]_vars

\* every tier fired; the second generic term was the first with a result
C25_Witness ==
    /\ SwrReturned
    /\ tiers = <<"direct", "simplified", "broader", "broader">>
    /\ sources # <<>>

(* C24: failure isolation: a failure (timeout, non-2xx, parse error,       *)
(* thrown exception) while one candidate is processed never prevents       *)
(* another candidate of the same query, or of a later query, from being    *)
(* evaluated.  In searchWeb's fan-out every result that can be mapped is   *)
(* returned, whatever became of its siblings; in searchTaxResources a      *)
(* candidate step, however it ends, leaves the other results of the query  *)
(* and the queries still planned in place, and keeps the sources accepted  *)
(* so far; a search that throws leaves the later queries in place.         *)
Mappable(results) == SelectSeq(results, LAMBDA r : ~r.bad)

FanOutIsolated ==
    (w_pc = "returned" /\ w_key /\ w_resp.kind = "results") =>
        /\ ~w_out.threw
        /\ Len(w_out.value) = Len(Mappable(w_resp.results))

ChainIsolated ==
    /\ (pc = "str_loop" /\ searchResults # <<>>) =>
          /\ pc' = "str_loop"
          /\ searchResults' = Tail(searchResults)
          /\ searchQueries' = searchQueries
          /\ \A i \in 1..Len(verifiedSources) : verifiedSources'[i] = verifiedSources[i]
    /\ (pc = "str_loop" /\ configErrors' # configErrors) =>
          /\ pc' = "str_loop"
          /\ searchQueries' = Tail(searchQueries)
          /\ verifiedSources' = verifiedSources

C24_FailureIsolation == []FanOutIsolated /\ [][ChainIsolated]_vars

\* a candidate accepted after the verification of an earlier one had failed
C24_Witness ==
    /\ StrReturned
    /\ failedUrls # {}
    /\ last = "accepted"
    /\ Len(sources) >= 1

C30_HistoryAlternates ==
    (s_pc = "idle" /\ s_outcome # "running") =>
        /\ s_history[1] = SystemMessage
        /\ Len(s_history) % 2 = 1
        /\ \A i \in 2..Len(s_history) :
              s_history[i].role = IF i % 2 = 0 THEN "user" ELSE "assistant"

=============================================================================
